---- MODULE Spec2Model ----
(***************************************************************************)
(* Feedback-System backend (src/server.js): an Express application whose   *)
(* handlers issue single autocommitted statements against one MySQL table, *)
(* `feedback`.  The table is the only state shared between requests.       *)
(*                                                                         *)
(* Conventions                                                             *)
(*   - a JSON body / query string is a function from the keys that are     *)
(*     present to their values: an absent key is JavaScript `undefined`;   *)
(*   - a text value is a tuple of one-character strings, so that trimming, *)
(*     case folding and substring search are computed, <<>> is "";         *)
(*   - SQL NULL is the tuple Null, which is not a text over the alphabet;  *)
(*   - the store is assumed to be reachable: a failing connection (the     *)
(*     catch blocks' 500) is not modelled, except where the driver itself  *)
(*     rejects the statement's parameters.                                 *)
(***************************************************************************)
EXTENDS Integers, Sequences, FiniteSets, TLC

(* ------------------------------ bounds -------------------------------- *)
\* rows ever inserted (the AUTO_INCREMENT counter stops here)
MaxRecords == 2
\* last value of the store's clock, in seconds
MaxClock == 1

(* -------------------------- program constants ------------------------- *)
MinRating == 1
MaxRating == 5

(* ------------------------------ values -------------------------------- *)
Null == <<"null">>

RequiredFields == {"name", "email", "feedback_type", "overall_rating"}
OptionalFields == {"subject_course", "detailed_feedback"}
BodyFields == RequiredFields \cup OptionalFields

\* req.body.<k> when the key is absent
Has(b, k) == k \in DOMAIN b

\* JavaScript truthiness of req.body.<k>: undefined, "" and 0 are falsy
Truthy(b, k) ==
    /\ Has(b, k)
    /\ IF k = "overall_rating" THEN b[k] # 0 ELSE b[k] # <<>>

\* `x || null` of lines 81
OrNull(b, k) == IF Truthy(b, k) THEN b[k] ELSE Null

\* every body that carries the keys of some K with values from the record set Full
BodiesFrom(Full, Keys) == {[k \in K |-> f[k]] : f \in Full, K \in Keys}

VARIABLES
    store,      \* the rows of table `feedback`
    nextId,     \* the table's AUTO_INCREMENT counter
    now,        \* the store's clock (CURRENT_TIMESTAMP), in seconds
    resp,       \* the response most recently sent
    list,       \* locals of the one GET /api/feedback request in flight
    ana,        \* locals of the one GET /api/analytics request in flight
    submitted   \* history: id -> the body it was submitted with, until the
                \* row is updated or deleted

vars == <<store, nextId, now, resp, list, ana, submitted>>

Ids == 1..MaxRecords

RowOf(id) == CHOOSE r \in store : r.id = id
Exists(id) == \E r \in store : r.id = id

NoResponse == [op |-> "none", status |-> 0]
Idle == [pc |-> "idle"]

Init ==
    /\ store = {}
    /\ nextId = 1
    /\ now = 0
    /\ resp = NoResponse
    /\ list = Idle
    /\ ana = Idle
    /\ submitted = <<>>

\* history: a request that is between its two queries sees the table change
StoreChanges(s) ==
    /\ list' = IF list.pc # "idle" /\ s # store
               THEN [list EXCEPT !.changed = TRUE]
               ELSE list
    /\ ana' = IF ana.pc # "idle" /\ s # store
              THEN [ana EXCEPT !.changed = TRUE]
              ELSE ana

Forget(id) == [i \in DOMAIN submitted \ {id} |-> submitted[i]]

(* ------------------------- 1. Submit Feedback ------------------------- *)
\* the required-field check without the email
MissingRequiredButEmail(b) ==
    \/ ~Truthy(b, "name")
    \/ ~Truthy(b, "feedback_type")
    \/ ~Truthy(b, "overall_rating")

MissingRequired(b) ==
    \/ ~Truthy(b, "name")
    \/ ~Truthy(b, "email")
    \/ ~Truthy(b, "feedback_type")
    \/ ~Truthy(b, "overall_rating")

\* the range check without its lower end
RatingAboveRange(b) == b["overall_rating"] > MaxRating

RatingOutOfRange(b) ==
    b["overall_rating"] < MinRating \/ b["overall_rating"] > MaxRating

\* the row INSERT creates: the statement's six parameters, the generated id
\* and the column defaults
\* the columns the statement does not name: the generated id and the
\* timestamps the table sets at creation
ColumnDefaults(id, t) == [id |-> id, submission_date |-> t, updated_at |-> t]

NewRow(id, b, t) ==
    [name              |-> b["name"],
     email             |-> b["email"],
     feedback_type     |-> b["feedback_type"],
     subject_course    |-> OrNull(b, "subject_course"),
     overall_rating    |-> b["overall_rating"],
     detailed_feedback |-> OrNull(b, "detailed_feedback")] @@ ColumnDefaults(id, t)

\* the INSERT with the last parameter left NULL
InsertedRowNoDetail(b) == [NewRow(nextId, b, now) EXCEPT !.detailed_feedback = Null]

InsertedRow(b) == NewRow(nextId, b, now)

SubmitResponse(b) ==
    IF MissingRequired(b)
    THEN [op |-> "submit", status |-> 400, error |-> "Missing required fields"]
    ELSE IF RatingOutOfRange(b)
    THEN [op |-> "submit", status |-> 400, error |-> "Rating must be between 1 and 5"]
    ELSE [op |-> "submit", status |-> 201, id |-> nextId]

SubmitStore(b) ==
    IF SubmitResponse(b).status = 201 THEN store \cup {InsertedRow(b)} ELSE store

SubmitFeedback(b) ==
    /\ SubmitResponse(b).status = 201 => nextId <= MaxRecords
    /\ resp' = SubmitResponse(b)
    /\ store' = SubmitStore(b)
    /\ IF SubmitResponse(b).status = 201
       THEN /\ nextId' = nextId + 1
            /\ submitted' = [i \in DOMAIN submitted \cup {nextId} |->
                                IF i = nextId THEN b ELSE submitted[i]]
       ELSE UNCHANGED <<nextId, submitted>>
    /\ StoreChanges(SubmitStore(b))
    /\ UNCHANGED now

(* ------------------------ 3. Get Feedback by ID ----------------------- *)
GetResponse(id) ==
    IF ~Exists(id)
    THEN [op |-> "get", status |-> 404, id |-> id]
    ELSE [op |-> "get", status |-> 200, id |-> id, body |-> RowOf(id)]

GetFeedbackById(id) ==
    /\ resp' = GetResponse(id)
    /\ UNCHANGED <<store, nextId, now, list, ana, submitted>>

(* ------------------------- 4. Update Feedback ------------------------- *)
\* the driver refuses a statement with an undefined bind parameter: the
\* handler's catch answers 500
UndefinedParameter(b) == \E k \in BodyFields : ~Has(b, k)

\* the UPDATE without `subject_course = ?`
UpdatedRowKeepCourse(r, b) ==
    [r EXCEPT !.name              = b["name"],
              !.email             = b["email"],
              !.feedback_type     = b["feedback_type"],
              !.overall_rating    = b["overall_rating"],
              !.detailed_feedback = b["detailed_feedback"],
              !.updated_at        = now]

UpdatedRow(r, b) ==
    [r EXCEPT !.name              = b["name"],
              !.email             = b["email"],
              !.feedback_type     = b["feedback_type"],
              !.subject_course    = b["subject_course"],
              !.overall_rating    = b["overall_rating"],
              !.detailed_feedback = b["detailed_feedback"],
              !.updated_at        = now]

UpdateResponse(id, b) ==
    IF UndefinedParameter(b) THEN [op |-> "update", status |-> 500, id |-> id]
    ELSE IF ~Exists(id) THEN [op |-> "update", status |-> 404, id |-> id]
    ELSE [op |-> "update", status |-> 200, id |-> id]

UpdateStore(id, b) ==
    IF UpdateResponse(id, b).status = 200
    THEN (store \ {RowOf(id)}) \cup {UpdatedRow(RowOf(id), b)}
    ELSE store

UpdateFeedback(id, b) ==
    /\ resp' = UpdateResponse(id, b)
    /\ store' = UpdateStore(id, b)
    /\ submitted' = IF UpdateResponse(id, b).status = 200 THEN Forget(id) ELSE submitted
    /\ StoreChanges(UpdateStore(id, b))
    /\ UNCHANGED <<nextId, now>>

(* ------------------------- 5. Delete Feedback ------------------------- *)
\* tokens that jwt.verify accepts under JWT_SECRET
ValidTokens == {"good"}

\* authHeader && authHeader.split(' ')[1]; a header is given already split
\* at its spaces, <<>> being no header
TokenOf(h) == IF Len(h) >= 2 THEN h[2] ELSE ""

\* the middleware without jwt.verify
authenticateUnverified(h) == IF TokenOf(h) = "" THEN 401 ELSE 0

\* 0 when next() is called, else the status sent
authenticateToken(h) ==
    IF TokenOf(h) = "" THEN 401
    ELSE IF TokenOf(h) \notin ValidTokens THEN 403
    ELSE 0

DeleteResponse(h, id) ==
    IF authenticateToken(h) # 0
    THEN [op |-> "delete", status |-> authenticateToken(h), id |-> id]
    ELSE IF ~Exists(id) THEN [op |-> "delete", status |-> 404, id |-> id]
    ELSE [op |-> "delete", status |-> 200, id |-> id]

DeleteStore(h, id) ==
    IF DeleteResponse(h, id).status = 200 THEN store \ {RowOf(id)} ELSE store

DeleteFeedback(h, id) ==
    /\ resp' = DeleteResponse(h, id)
    /\ store' = DeleteStore(h, id)
    /\ submitted' = IF DeleteResponse(h, id).status = 200 THEN Forget(id) ELSE submitted
    /\ StoreChanges(DeleteStore(h, id))
    /\ UNCHANGED <<nextId, now>>

(* ----------------- 2. Get All Feedback (with filters) ------------------ *)
DefaultLimit == 50
DefaultOffset == 0

\* JavaScript truthiness of req.query.<k>: undefined and "" are falsy
Given(q, k) == Has(q, k) /\ q[k] # <<>>

DigitValue(c) ==
    CASE c = "0" -> 0 [] c = "1" -> 1 [] c = "2" -> 2 [] c = "3" -> 3
      [] c = "4" -> 4 [] c = "5" -> 5 [] c = "6" -> 6 [] c = "7" -> 7
      [] c = "8" -> 8 [] c = "9" -> 9

\* parseInt of a string of decimal digits
RECURSIVE parseInt(_)
parseInt(s) ==
    IF Len(s) = 1 THEN DigitValue(s[1])
    ELSE 10 * parseInt(SubSeq(s, 1, Len(s) - 1)) + DigitValue(s[Len(s)])

LimitOf(q) == IF Has(q, "limit") THEN parseInt(q["limit"]) ELSE DefaultLimit
OffsetOf(q) == IF Has(q, "offset") THEN parseInt(q["offset"]) ELSE DefaultOffset

\* WHERE 1=1 [AND feedback_type = ?] [AND overall_rating = ?] of the page query
PageWhere(r, q) ==
    /\ Given(q, "type") => r.feedback_type = q["type"]
    /\ Given(q, "rating") => r.overall_rating = parseInt(q["rating"])

\* the count query without its rating clause
CountWhereTypeOnly(r, q) == Given(q, "type") => r.feedback_type = q["type"]

\* the same of the count query
CountWhere(r, q) ==
    /\ Given(q, "type") => r.feedback_type = q["type"]
    /\ Given(q, "rating") => r.overall_rating = parseInt(q["rating"])

\* ORDER BY submission_date DESC: every arrangement of the rows that is
\* descending in submission_date (rows of one second come in any order)
OrderByDateDesc(rows) ==
    {s \in [1..Cardinality(rows) -> rows] :
        /\ \A i, j \in DOMAIN s : i < j =>
              /\ s[i] # s[j]
              /\ s[i].submission_date >= s[j].submission_date}

Min(a, b) == IF a <= b THEN a ELSE b

\* LIMIT n OFFSET m
LimitOffset(s, n, m) == SubSeq(s, m + 1, Min(m + n, Len(s)))

\* lines 97-115: the page query
GetAllFeedbackPage(q) ==
    /\ list.pc = "idle"
    /\ \E s \in OrderByDateDesc({r \in store : PageWhere(r, q)}) :
          list' = [pc |-> "count", query |-> q, changed |-> FALSE,
                   rows |-> LimitOffset(s, LimitOf(q), OffsetOf(q))]
    /\ resp' = NoResponse
    /\ UNCHANGED <<store, nextId, now, ana, submitted>>

\* lines 117-137: the count query and the response
GetAllFeedbackCount ==
    /\ list.pc = "count"
    /\ resp' = [op |-> "list", status |-> 200,
                feedback |-> list.rows,
                total |-> Cardinality({r \in store : CountWhere(r, list.query)}),
                limit |-> LimitOf(list.query),
                offset |-> OffsetOf(list.query),
                query |-> list.query,
                changed |-> list.changed]
    /\ list' = Idle
    /\ UNCHANGED <<store, nextId, now, ana, submitted>>

(* ------------------------ 6. Analytics Endpoint ----------------------- *)
RECURSIVE SumRatings(_)
SumRatings(rows) ==
    IF rows = {} THEN 0
    ELSE LET r == CHOOSE x \in rows : TRUE
         IN  r.overall_rating + SumRatings(rows \ {r})

\* AVG(overall_rating) over at least one row of ratings >= 0: a DECIMAL of
\* four places, here in ten-thousandths, rounded half up
Avg(rows) ==
    (20000 * SumRatings(rows) + Cardinality(rows)) \div (2 * Cardinality(rows))

Pad(n, width) ==
    IF width = 4 /\ n < 10 THEN "000" \o ToString(n)
    ELSE IF width = 4 /\ n < 100 THEN "00" \o ToString(n)
    ELSE IF width = 4 /\ n < 1000 THEN "0" \o ToString(n)
    ELSE ToString(n)

\* the driver hands a DECIMAL over as a string, "3.6667"
Decimal(a) == ToString(a \div 10000) \o "." \o Pad(a % 10000, 4)

\* the average cut, not rounded, to one place
toFixedTruncated(a) ==
    LET x == IF a = <<>> THEN 0 ELSE a[1]
        t == x \div 1000
    IN  ToString(t \div 10) \o "." \o ToString(t % 10)

\* parseFloat(average || 0).toFixed(1), the average being <<a>>, a in
\* ten-thousandths, or <<>> for NULL: the nearest tenth, the larger one of
\* two equally near.  (A table of
\* fewer than 20 rows has no mean of the form x.x5 other than x.25 and x.75,
\* which a double holds exactly.)
toFixed(a) ==
    LET x == IF a = <<>> THEN 0 ELSE a[1]
        t == (x + 500) \div 1000
    IN  ToString(t \div 10) \o "." \o ToString(t % 10)

TypesOf(rows) == {r.feedback_type : r \in rows}
RatingsOf(rows) == {r.overall_rating : r \in rows}

\* GROUP BY feedback_type (no ORDER BY: the rows as a set)
ByType(rows) ==
    {[feedback_type |-> t,
      count |-> Cardinality({r \in rows : r.feedback_type = t}),
      avg_rating |-> Decimal(Avg({r \in rows : r.feedback_type = t}))] :
        t \in TypesOf(rows)}

\* the k-th smallest element of a set of integers
Nth(S, k) == CHOOSE x \in S : Cardinality({y \in S : y < x}) = k - 1

\* GROUP BY overall_rating ORDER BY overall_rating
ByRating(rows) ==
    [k \in 1..Cardinality(RatingsOf(rows)) |->
        [overall_rating |-> Nth(RatingsOf(rows), k),
         count |-> Cardinality({r \in rows :
                                  r.overall_rating = Nth(RatingsOf(rows), k)})]]

\* the calendar: a timestamp counts the seconds from 1970-01-01 00:00:00
SecondsPerDay == 24 * 60 * 60

CivilFromDays(days) ==
    LET z   == days + 719468
        era == z \div 146097
        doe == z - era * 146097
        yoe == (doe - doe \div 1460 + doe \div 36524 - doe \div 146096) \div 365
        doy == doe - (365 * yoe + yoe \div 4 - yoe \div 100)
        mp  == (5 * doy + 2) \div 153
        m   == IF mp < 10 THEN mp + 3 ELSE mp - 9
    IN  [year  |-> yoe + era * 400 + (IF m <= 2 THEN 1 ELSE 0),
         month |-> m,
         day   |-> doy - (153 * mp + 2) \div 5 + 1]

DaysFromCivil(y0, m, d) ==
    LET y   == IF m <= 2 THEN y0 - 1 ELSE y0
        era == y \div 400
        yoe == y - era * 400
        doy == (153 * (IF m > 2 THEN m - 3 ELSE m + 9) + 2) \div 5 + d - 1
        doe == yoe * 365 + yoe \div 4 - yoe \div 100 + doy
    IN  era * 146097 + doe - 719468

YEAR(t) == CivilFromDays(t \div SecondsPerDay).year
MONTH(t) == CivilFromDays(t \div SecondsPerDay).month
MONTHNAME(t) ==
    <<"January", "February", "March", "April", "May", "June", "July",
      "August", "September", "October", "November", "December">>[MONTH(t)]

IsLeap(y) == (y % 4 = 0 /\ y % 100 # 0) \/ y % 400 = 0

\* DATE_SUB(t, INTERVAL 12 MONTH): the same time of the same day a year
\* before, the 29th of February becoming the 28th
DateSubYear(t) ==
    LET c == CivilFromDays(t \div SecondsPerDay)
        d == IF c.month = 2 /\ c.day = 29 /\ ~IsLeap(c.year - 1) THEN 28 ELSE c.day
    IN  DaysFromCivil(c.year - 1, c.month, d) * SecondsPerDay + (t % SecondsPerDay)

\* DATE_SUB(t, INTERVAL 7 DAY)
DateSubWeek(t) == t - 7 * SecondsPerDay

MonthsOf(rows) == {YEAR(r.submission_date) * 12 + MONTH(r.submission_date) - 1 : r \in rows}

\* the rows of the trailing twelve months, GROUP BY year, month
\* ORDER BY year DESC, month DESC
Monthly(rows) ==
    LET recent == {r \in rows : r.submission_date >= DateSubYear(now)}
        n      == Cardinality(MonthsOf(recent))
        ym(k)  == Nth(MonthsOf(recent), n + 1 - k)
        in(k)  == {r \in recent :
                     YEAR(r.submission_date) * 12 + MONTH(r.submission_date) - 1 = ym(k)}
        any(k) == (CHOOSE r \in in(k) : TRUE).submission_date
    IN  [k \in 1..n |->
            [year |-> ym(k) \div 12, month |-> (ym(k) % 12) + 1,
             month_name |-> MONTHNAME(any(k)), count |-> Cardinality(in(k))]]

\* line 212: SELECT COUNT(*)
AnalyticsTotal ==
    /\ ana.pc = "idle"
    /\ ana' = [pc |-> "average", changed |-> FALSE, total |-> Cardinality(store)]
    /\ resp' = NoResponse
    /\ UNCHANGED <<store, nextId, now, list, submitted>>

\* line 215: SELECT AVG(overall_rating)
AnalyticsAverage ==
    /\ ana.pc = "average"
    /\ ana' = [pc |-> "groups", changed |-> ana.changed, total |-> ana.total,
               average |-> IF store = {} THEN <<>> ELSE <<Avg(store)>>]
    /\ UNCHANGED <<store, nextId, now, resp, list, submitted>>

\* lines 218-243: the three grouped queries
AnalyticsGroups ==
    /\ ana.pc = "groups"
    /\ ana' = [pc |-> "recent", changed |-> ana.changed, total |-> ana.total,
               average |-> ana.average, by_type |-> ByType(store),
               monthly |-> Monthly(store), by_rating |-> ByRating(store)]
    /\ UNCHANGED <<store, nextId, now, resp, list, submitted>>

\* lines 246-259: the count of the last seven days, and the response
AnalyticsRecent ==
    /\ ana.pc = "recent"
    /\ resp' = [op |-> "analytics", status |-> 200,
                total_feedback |-> ana.total,
                average_rating |-> toFixed(ana.average),
                feedback_by_type |-> ana.by_type,
                monthly_stats |-> ana.monthly,
                rating_distribution |-> ana.by_rating,
                recent_feedback |->
                    Cardinality({r \in store : r.submission_date >= DateSubWeek(now)}),
                changed |-> ana.changed]
    /\ ana' = Idle
    /\ UNCHANGED <<store, nextId, now, list, submitted>>

(* -------------------------- 7. Search Feedback ------------------------ *)
MinQueryLength == 2
SearchLimit == 50

\* String.prototype.trim, the space being the only white space of the alphabet
RECURSIVE trim(_)
trim(s) ==
    IF s = <<>> THEN s
    ELSE IF Head(s) = " " THEN trim(Tail(s))
    ELSE IF s[Len(s)] = " " THEN trim(SubSeq(s, 1, Len(s) - 1))
    ELSE s

\* the table's collation compares without regard to case
Fold(c) == IF c = "A" THEN "a" ELSE IF c = "L" THEN "l" ELSE c

\* text LIKE pattern: % stands for any run of characters, _ for any one
RECURSIVE Like(_, _)
Like(text, pat) ==
    IF pat = <<>> THEN text = <<>>
    ELSE IF Head(pat) = "%"
         THEN Like(text, Tail(pat)) \/ (text # <<>> /\ Like(Tail(text), pat))
    ELSE /\ text # <<>>
         /\ Head(pat) = "_" \/ Fold(Head(pat)) = Fold(Head(text))
         /\ Like(Tail(text), Tail(pat))

\* a NULL column is LIKE nothing
ColumnLike(v, pat) == v # Null /\ Like(v, pat)

SearchTerm(q) == <<"%">> \o trim(q["q"]) \o <<"%">>

SearchWhere(r, q) ==
    /\ \/ ColumnLike(r.detailed_feedback, SearchTerm(q))
       \/ ColumnLike(r.subject_course, SearchTerm(q))
       \/ ColumnLike(r.name, SearchTerm(q))
    /\ Given(q, "type") => r.feedback_type = q["type"]
    /\ Given(q, "rating") => r.overall_rating = parseInt(q["rating"])

\* the length check without trim()
QueryTooShortUntrimmed(q) == ~Given(q, "q") \/ Len(q["q"]) < MinQueryLength

QueryTooShort(q) == ~Given(q, "q") \/ Len(trim(q["q"])) < MinQueryLength

\* the responses the handler can give to q: one per order of the rows
SearchResponses(q) ==
    IF QueryTooShort(q)
    THEN {[op |-> "search", status |-> 400, query |-> q]}
    ELSE {[op |-> "search", status |-> 200, query |-> q,
           results |-> LimitOffset(s, SearchLimit, 0),
           count |-> Len(LimitOffset(s, SearchLimit, 0))] :
             s \in OrderByDateDesc({r \in store : SearchWhere(r, q)})}

SearchFeedback(q) ==
    /\ resp' \in SearchResponses(q)
    /\ UNCHANGED <<store, nextId, now, list, ana, submitted>>

(* ------------------------------ the clock ----------------------------- *)
Tick ==
    /\ now < MaxClock
    /\ now' = now + 1
    /\ UNCHANGED <<store, nextId, resp, list, ana, submitted>>

(* ------------------------------ inputs -------------------------------- *)
\* longest search text tried
MaxQueryLen == 3
\* rows of the table the analytics runs start from
SeedRows == 3

Al == <<"A", "l">>
Bo == <<"B", "o">>
Mail == <<"a", "@", "b">>
Mail2 == <<"c", "@", "d">>
Course == <<"c">>
Faculty == <<"f">>
Ok == <<"o", "k">>
Lab == <<"L", "a", "b">>

Good == <<"Bearer", "good">>

Headers == {<<>>, <<"Bearer">>, <<"Bearer", "">>, <<"Bearer", "bad">>,
            Good, <<"Token", "good">>}

\* key sets that leave out no field, one field, the two optional fields or
\* two required fields
MostKeys ==
    {BodyFields, RequiredFields, BodyFields \ {"name", "overall_rating"}}
        \cup {BodyFields \ {k} : k \in BodyFields}

\* bodies for validation: falsy and truthy values, ratings around both ends
\* of the range, keys absent
SubmitBodies ==
    BodiesFrom([name: {<<>>, Al}, email: {Mail}, feedback_type: {Course},
                subject_course: {<<>>, Ok},
                overall_rating: {-1, MinRating - 1, MinRating, MaxRating, MaxRating + 1},
                detailed_feedback: {Ok}], MostKeys)

Replacement ==
    [name |-> Bo, email |-> Mail2, feedback_type |-> Faculty,
     subject_course |-> Lab, overall_rating |-> 3, detailed_feedback |-> Null]

NextSubmit ==
    \/ \E b \in SubmitBodies : SubmitFeedback(b)
    \/ \E id \in Ids : GetFeedbackById(id)
    \/ \E id \in Ids : UpdateFeedback(id, Replacement)
    \/ \E h \in Headers, id \in Ids : DeleteFeedback(h, id)

Spec == Init /\ [][NextSubmit]_vars

\* one valid submission, and replacements that are valid, invalid and partial
Original ==
    [name |-> Al, email |-> Mail, feedback_type |-> Course,
     subject_course |-> Ok, overall_rating |-> MinRating, detailed_feedback |-> Ok]

UpdateBodies ==
    {Replacement,
     [Replacement EXCEPT !.name = <<>>, !.overall_rating = MaxRating + 1],
     [Replacement EXCEPT !.email = <<>>, !.feedback_type = <<>>,
                         !.overall_rating = MinRating - 1],
     [k \in BodyFields \ {"subject_course"} |-> Replacement[k]],
     [k \in {"overall_rating"} |-> 4]}

NextUpdate ==
    \/ SubmitFeedback(Original)
    \/ \E id \in Ids, b \in UpdateBodies : UpdateFeedback(id, b)
    \/ \E id \in Ids : GetFeedbackById(id)
    \/ \E id \in Ids : DeleteFeedback(Good, id)
    \/ Tick

SpecUpdate == Init /\ [][NextUpdate]_vars

\* bodies that differ in what the list filters look at
ListBodies ==
    {[Original EXCEPT !.feedback_type = Course, !.overall_rating = MaxRating],
     [Original EXCEPT !.feedback_type = Course, !.overall_rating = MinRating],
     [Original EXCEPT !.feedback_type = Faculty, !.overall_rating = MaxRating]}

ListQueries ==
    {<<>>,
     [type |-> Course],
     [rating |-> <<"5">>],
     [type |-> Course, rating |-> <<"5">>],
     [type |-> <<>>, rating |-> <<"1">>, limit |-> <<"2">>],
     [limit |-> <<"1">>],
     [limit |-> <<"1">>, offset |-> <<"1">>],
     [type |-> Course, limit |-> <<"1">>],
     [limit |-> <<"0">>],
     [offset |-> <<"2">>]}

NextList ==
    \/ \E b \in ListBodies : SubmitFeedback(b)
    \/ \E id \in Ids : DeleteFeedback(Good, id)
    \/ \E q \in ListQueries : GetAllFeedbackPage(q)
    \/ GetAllFeedbackCount
    \/ Tick

SpecList == Init /\ [][NextList]_vars

\* a table of SeedRows rows as earlier submissions left it
SeedRatings == {MinRating, 2, MaxRating}
SeedIds == 1..SeedRows

SeedTables ==
    {{NewRow(i, [Original EXCEPT
                    !.overall_rating = f[i],
                    !.feedback_type = IF i = 1 THEN Course ELSE Faculty], 0) :
          i \in SeedIds} :
        f \in [SeedIds -> SeedRatings]}

InitAnalytics ==
    /\ store \in SeedTables
    /\ nextId = SeedRows + 1
    /\ now = 0
    /\ resp = NoResponse
    /\ list = Idle
    /\ ana = Idle
    /\ submitted = <<>>

NextAnalytics ==
    \/ \E id \in SeedIds : DeleteFeedback(Good, id)
    \/ AnalyticsTotal
    \/ AnalyticsAverage
    \/ AnalyticsGroups
    \/ AnalyticsRecent

SpecAnalytics == InitAnalytics /\ [][NextAnalytics]_vars

\* search texts: every text of up to MaxQueryLen spaces and letters, and
\* three with an upper-case letter or a wildcard
Texts(n) == UNION {[1..k -> {" ", "a"}] : k \in 0..n}

SearchQueries ==
    BodiesFrom([q: Texts(MaxQueryLen) \cup {<<"L", "A">>, <<"%", "%">>, <<"_", "b">>},
                type: {Course}, rating: {<<"5">>}],
               {{}, {"q"}, {"q", "type"}, {"q", "rating"}, {"type", "rating"}})

SearchBodies ==
    {[Original EXCEPT !.name = Al, !.subject_course = Lab, !.overall_rating = MaxRating],
     [k \in RequiredFields |->
         IF k = "feedback_type" THEN Faculty ELSE Original[k]]}

NextSearch ==
    \/ \E b \in SearchBodies : SubmitFeedback(b)
    \/ \E q \in SearchQueries : SearchFeedback(q)
    \/ Tick

SpecSearch == Init /\ [][NextSearch]_vars

(* ------------------------------ properties ---------------------------- *)

\* C1: a submit whose overall_rating lies outside 1..5 is answered 400 and
\* adds no row, whatever the other fields are.
OutOfRangeRatingRejected ==
    \A b \in SubmitBodies :
        (Has(b, "overall_rating") /\ b["overall_rating"] \notin 1..5) =>
            /\ SubmitResponse(b).status = 400
            /\ SubmitStore(b) = store

OutOfRangeRatingWitness ==
    /\ resp.op = "submit"
    /\ resp.status = 400
    /\ resp.error = "Rating must be between 1 and 5"
    /\ store # {}

\* C2: a submit that lacks name, email, feedback_type or overall_rating is
\* answered 400 and leaves the store as it is; one that carries the four,
\* truthy and with the rating in range, is accepted whether or not
\* subject_course and detailed_feedback are present.
MissingFieldRejected ==
    \A b \in SubmitBodies :
        /\ (\E k \in RequiredFields : ~Has(b, k)) =>
              /\ SubmitResponse(b).status = 400
              /\ SubmitStore(b) = store
        /\ (/\ \A k \in RequiredFields : Has(b, k)
            /\ b["name"] # <<>>
            /\ b["overall_rating"] \in 1..5) =>
              /\ SubmitResponse(b).status = 201
              /\ Cardinality(SubmitStore(b)) = Cardinality(store) + 1

MissingFieldWitness ==
    /\ resp.op = "submit"
    /\ resp.status = 400
    /\ resp.error = "Missing required fields"
    /\ \E i \in DOMAIN submitted :
          /\ ~Has(submitted[i], "subject_course")
          /\ ~Has(submitted[i], "detailed_feedback")
          /\ Exists(i)

\* C3: every stored row has overall_rating in 1..5 and a non-empty name,
\* email and feedback_type.
StoredRowsValid ==
    \A r \in store :
        /\ r.overall_rating \in 1..5
        /\ r.name # <<>>
        /\ r.email # <<>>
        /\ r.feedback_type # <<>>

\* C4: every list response reports a total that is at least the number of
\* rows of its page, and a page of at most `limit` rows.
TotalCoversPage ==
    resp.op = "list" =>
        /\ resp.total >= Len(resp.feedback)
        /\ Len(resp.feedback) <= resp.limit

\* C5: a delete with no token is answered 401, one with a token that does
\* not verify 403, and neither removes a row; a delete with a valid token of
\* an id without a row is answered 404 and leaves the store as it is.
NoToken(h) == Len(h) < 2 \/ h[2] = ""

DeleteNeedsToken ==
    \A h \in Headers, id \in Ids :
        /\ NoToken(h) =>
              DeleteResponse(h, id).status = 401 /\ DeleteStore(h, id) = store
        /\ (~NoToken(h) /\ h[2] \notin ValidTokens) =>
              DeleteResponse(h, id).status = 403 /\ DeleteStore(h, id) = store
        /\ (~NoToken(h) /\ h[2] \in ValidTokens /\ ~\E r \in store : r.id = id) =>
              DeleteResponse(h, id).status = 404 /\ DeleteStore(h, id) = store

DeleteNeedsTokenWitness ==
    /\ resp.op = "delete"
    /\ resp.status = 403
    /\ \E r \in store : r.id = resp.id

\* C6 as stated: a row that was submitted and neither updated nor deleted
\* is returned by id with the six fields exactly as submitted (an absent
\* optional field as null), with its id and a submission timestamp.
ReturnedAsSubmitted ==
    \A i \in DOMAIN submitted :
        /\ GetResponse(i).status = 200
        /\ GetResponse(i).body.id = i
        /\ "submission_date" \in DOMAIN GetResponse(i).body
        /\ \A k \in BodyFields :
              GetResponse(i).body[k] =
                  IF Has(submitted[i], k) THEN submitted[i][k] ELSE Null

\* C6: a row that was submitted and neither updated nor deleted is returned
\* by id with name, email, feedback_type and overall_rating as submitted,
\* with subject_course and detailed_feedback as submitted when non-empty and
\* null when empty or absent, with its id and a submission timestamp.
ReturnedAsStored ==
    \A i \in DOMAIN submitted :
        /\ GetResponse(i).status = 200
        /\ GetResponse(i).body.id = i
        /\ "submission_date" \in DOMAIN GetResponse(i).body
        /\ \A k \in RequiredFields : GetResponse(i).body[k] = submitted[i][k]
        /\ \A k \in OptionalFields :
              GetResponse(i).body[k] =
                  IF Has(submitted[i], k) /\ submitted[i][k] # <<>>
                  THEN submitted[i][k] ELSE Null

ReturnedAsStoredWitness ==
    /\ resp.op = "get"
    /\ resp.status = 200
    /\ resp.id \in DOMAIN submitted
    /\ Has(submitted[resp.id], "subject_course")
    /\ submitted[resp.id]["subject_course"] = <<>>
    /\ resp.body.subject_course = Null
    /\ resp.body.detailed_feedback = Ok

\* C7: a search is answered 400 exactly when q is absent or shorter than two
\* characters once the spaces at its ends are removed, whatever type and
\* rating are; otherwise it is answered with a result set.
TrimmedLength(s) ==
    LET P == {i \in 1..Len(s) : s[i] # " "}
    IN  IF P = {} THEN 0
        ELSE (CHOOSE i \in P : \A j \in P : j <= i)
             - (CHOOSE i \in P : \A j \in P : j >= i) + 1

ShortQueryRejected ==
    resp.op = "search" =>
        IF ~Has(resp.query, "q") \/ TrimmedLength(resp.query["q"]) < 2
        THEN resp.status = 400
        ELSE resp.status = 200 /\ resp.count = Len(resp.results)

ShortQueryWitness ==
    /\ resp.op = "search"
    /\ resp.status = 400
    /\ Has(resp.query, "q")
    /\ Len(resp.query["q"]) = 3
    /\ Has(resp.query, "type")
    /\ store # {}

\* C8: an analytics request during which the table does not change reports
\* total_feedback 0 and average_rating "0.0" when the table is empty, and
\* otherwise as average_rating a tenth that is nearest to the mean of the
\* rows' overall_rating.
Tenth(t) == ToString(t \div 10) \o "." \o ToString(t % 10)

Distance(a, b) == IF a >= b THEN a - b ELSE b - a

AverageRounded ==
    (resp.op = "analytics" /\ ~resp.changed) =>
        /\ resp.status = 200
        /\ store = {} => resp.total_feedback = 0 /\ resp.average_rating = "0.0"
        /\ store # {} =>
              \E t \in 0..(10 * MaxRating) :
                  /\ resp.average_rating = Tenth(t)
                  /\ 2 * Distance(10 * SumRatings(store), t * Cardinality(store))
                        <= Cardinality(store)

AverageRoundedWitness ==
    /\ resp.op = "analytics"
    /\ ~resp.changed
    /\ store # {}
    /\ (10 * SumRatings(store)) % Cardinality(store) # 0

\* C9: a list request during which the table does not change returns only
\* stored rows that match every supplied filter, newest submission first,
\* and a total that is the number of stored rows matching those filters,
\* whatever limit and offset are.
Supplied(q, k) == k \in DOMAIN q /\ q[k] # <<>>

FilterHolds(r, q) ==
    /\ Supplied(q, "type") => r.feedback_type = q["type"]
    /\ Supplied(q, "rating") => r.overall_rating = parseInt(q["rating"])

ListMatchesFilters ==
    (resp.op = "list" /\ ~resp.changed) =>
        /\ \A i \in DOMAIN resp.feedback :
              resp.feedback[i] \in store /\ FilterHolds(resp.feedback[i], resp.query)
        /\ \A i, j \in DOMAIN resp.feedback :
              i < j => resp.feedback[i].submission_date >= resp.feedback[j].submission_date
        /\ resp.total = Cardinality({r \in store : FilterHolds(r, resp.query)})

ListMatchesFiltersWitness ==
    /\ resp.op = "list"
    /\ ~resp.changed
    /\ Supplied(resp.query, "type")
    /\ Supplied(resp.query, "rating")
    /\ Len(resp.feedback) >= 1
    /\ resp.total < Cardinality(store)

\* C10: an update that supplies the six fields, of an id that has a row,
\* gives that row the six supplied values, keeps its id and submission_date
\* and keeps every other row; of an id that has no row it is answered 404
\* and leaves the store as it is.
FullBodies == {b \in UpdateBodies : DOMAIN b = BodyFields}

====
